---- MODULE Spec2Model ----
(***************************************************************************)
(* stDBMS: the binary save/load contract of two record kinds.              *)
(*                                                                         *)
(*   - the library variant (common.rs, pageman.rs, dirman.rs): a Page is   *)
(*     a header and a 256-byte content buffer with an in-band terminator,  *)
(*     a Directory is a header, a column schema and a list of page names;  *)
(*   - the simple variant of main.rs: a Directory without columns whose    *)
(*     add_page has no capacity check.                                     *)
(*                                                                         *)
(* A byte is a number in 0..255, a byte array and a file are sequences of  *)
(* bytes (1-based here, 0-based in the source), a &str is the sequence of  *)
(* its UTF-8 bytes, and a String is the sequence of its code points.       *)
(***************************************************************************)
EXTENDS Integers, Sequences, FiniteSets, TLC

VARIABLES
    page,   \* the Page the caller holds (pageman.rs), or NoValue before the first one
    made,   \* the (name, buffer) arguments of the Page::new call that built `page`
    news,   \* number of Page::new calls made so far
    dir,    \* the Directory the caller holds (dirman.rs), or NoValue
    calls,  \* number of add_page calls made on the current directory
    sdir,   \* the simple-variant Directory of main.rs, or NoValue
    pc,     \* position in tests::test_directory_operations (main.rs)
    file,   \* the bytes of the file at the path used, or NoValue if there is none
    res     \* the most recent call and what it returned

vars == <<page, made, news, dir, calls, sdir, pc, file, res>>

----------------------------------------------------------------------------
(* Bounds of the model.                                                    *)

\* long payloads have lengths PAGE_CONTENT_SIZE - 1 .. PAGE_CONTENT_SIZE + MaxOver
MaxOver == 1
\* add_page calls per directory in the specification with files (Spec)
MaxAdd == 2
\* add_page calls per directory in the capacity specification (SpecCap)
MaxCalls == 34
\* Page::new calls in the capacity specification (SpecCap)
MaxPageNew == 1
\* add_page calls in the simple-variant test (SpecSimple)
MaxSimpleAdds == 257

----------------------------------------------------------------------------
(* Program constants.                                                      *)

MIN_PAGE_NAME_SIZE == 8
MIN_DIR_NAME_SIZE == 8
MIN_COL_NAME_SIZE == 8

PAGE_MAGIC == 202
PAGE_CONTENT_SIZE == 256
PAGE_END == 237
PAGE_NAME_SIZE == MIN_PAGE_NAME_SIZE

\* mutant: the directory tag has the value of the page tag (as in main.rs)
DIRECTORY_MAGIC_SameAsPage == PAGE_MAGIC
DIRECTORY_MAGIC == 204
PAGES_PER_DIRECTORY == 32
DIRECTORY_NAME_SIZE == MIN_DIR_NAME_SIZE
COLUMN_NAME_SIZE == MIN_COL_NAME_SIZE
COLUMN_INT == 0
COLUMN_FLOAT == 1
COLUMN_STRING == 2

\* main.rs
Simple_DIRECTORY_MAGIC == 209
Simple_NAME_SIZE == 8

\* `n as u8`
AsU8(n) == n % 256

----------------------------------------------------------------------------
(* Values.                                                                 *)

NoValue == [tag |-> "None"]
Ok(v) == [tag |-> "Ok", val |-> v]
Err(e) == [tag |-> "Err", err |-> e]
\* Option::Some
Some(v) == [tag |-> "Some", val |-> v]
\* a file that exists, with its bytes
File(bytes) == [tag |-> "File", val |-> bytes]

\* error.rs, enum DbError (main.rs, enum FileManagerError, has the first three)
InvalidMagic(e, f) == [kind |-> "InvalidMagic", expected |-> e, found |-> f]
InvalidPageCount(c) == [kind |-> "InvalidPageCount", count |-> c]
Io(what) == [kind |-> "Io", error |-> what]
InvalidInput(e, f) == [kind |-> "InvalidInput", expected |-> e, found |-> f]

Min(a, b) == IF a <= b THEN a ELSE b

\* file.read_exact(&mut buf) with buf of n bytes, on a file whose unread part
\* is `rest`: either the n bytes and the new unread part, or UnexpectedEof
CanRead(rest, n) == Len(rest) >= n
Take(rest, n) == SubSeq(rest, 1, n)
Drop(rest, n) == SubSeq(rest, n + 1, Len(rest))

----------------------------------------------------------------------------
(* common.rs                                                               *)

\* string_to_fixed::<N>(s)
string_to_fixed(s, N) ==
    LET len == Min(Len(s), N)
    IN  [i \in 1..N |-> IF i <= len THEN s[i] ELSE 0]

\* String::from_utf8_lossy on bytes that hold no continuation byte
\* (128..191): every byte below 128 is its own code point and every other
\* byte is an invalid sequence of length one, replaced by U+FFFD
from_utf8_lossy(bytes) ==
    [i \in 1..Len(bytes) |-> IF bytes[i] < 128 THEN bytes[i] ELSE 65533]

RECURSIVE trim_end_nul(_)
trim_end_nul(s) ==
    IF Len(s) > 0 /\ s[Len(s)] = 0
    THEN trim_end_nul(SubSeq(s, 1, Len(s) - 1))
    ELSE s

\* fixed_to_string(bytes)
fixed_to_string(bytes) == trim_end_nul(from_utf8_lossy(bytes))

\* the String a &str converts to (`to_string`), for comparison with the above
to_string(s) == from_utf8_lossy(s)

----------------------------------------------------------------------------
(* pageman.rs                                                              *)

\* Page::new(name, buffer)
Page_new(name, buffer) ==
    IF Len(name) > PAGE_NAME_SIZE
    THEN Err(InvalidInput(name, PAGE_NAME_SIZE))
    ELSE LET copy_len == Min(Len(buffer), PAGE_CONTENT_SIZE - 1)
             content == [i \in 1..PAGE_CONTENT_SIZE |->
                            IF i <= copy_len THEN buffer[i]
                            ELSE IF i = copy_len + 1 THEN PAGE_END
                            ELSE 0]
         IN  Ok([header |-> [magic |-> PAGE_MAGIC,
                             name |-> string_to_fixed(name, PAGE_NAME_SIZE)],
                 content |-> content])

\* Page::save: the bytes written to the created file
Page_save(p) == <<p.header.magic>> \o p.header.name \o p.content

\* mutant: Page::load without the comparison of the magic byte
Page_load_bytes_NoMagicCheck(bytes) ==
    IF ~CanRead(bytes, 1 + PAGE_NAME_SIZE + PAGE_CONTENT_SIZE)
    THEN Err(Io("UnexpectedEof"))
    ELSE Ok([header |-> [magic |-> bytes[1],
                         name |-> SubSeq(bytes, 2, 1 + PAGE_NAME_SIZE)],
             content |-> SubSeq(bytes, 2 + PAGE_NAME_SIZE,
                                1 + PAGE_NAME_SIZE + PAGE_CONTENT_SIZE)])

\* Page::load, on the bytes of an opened file
Page_load_bytes(bytes) ==
    IF ~CanRead(bytes, 1) THEN Err(Io("UnexpectedEof"))
    ELSE LET magic == bytes[1]
             r1 == Drop(bytes, 1)
         IN  IF ~CanRead(r1, PAGE_NAME_SIZE) THEN Err(Io("UnexpectedEof"))
             ELSE LET name == Take(r1, PAGE_NAME_SIZE)
                      r2 == Drop(r1, PAGE_NAME_SIZE)
                  IN  IF magic # PAGE_MAGIC
                      THEN Err(InvalidMagic(PAGE_MAGIC, magic))
                      ELSE IF ~CanRead(r2, PAGE_CONTENT_SIZE)
                           THEN Err(Io("UnexpectedEof"))
                           ELSE Ok([header |-> [magic |-> magic, name |-> name],
                                    content |-> Take(r2, PAGE_CONTENT_SIZE)])

\* Page::load(path): File::open fails when there is no file
Page_load(f) ==
    IF f.tag = "None" THEN Err(Io("NotFound")) ELSE Page_load_bytes(f.val)

\* Page::get_name
Page_get_name(p) == fixed_to_string(p.header.name)

\* Page::get_content
Page_get_content(p) ==
    LET hits == {i \in 1..PAGE_CONTENT_SIZE : p.content[i] = PAGE_END}
        end_pos == IF hits = {} THEN PAGE_CONTENT_SIZE
                   ELSE (CHOOSE i \in hits : \A j \in hits : i <= j) - 1
    IN  SubSeq(p.content, 1, end_pos)

----------------------------------------------------------------------------
(* dirman.rs                                                               *)

\* DirectoryColumn::new_int / new_float / new_string
DirectoryColumn_new_int(name) ==
    [type_ |-> COLUMN_INT, name |-> string_to_fixed(name, COLUMN_NAME_SIZE)]
DirectoryColumn_new_float(name) ==
    [type_ |-> COLUMN_FLOAT, name |-> string_to_fixed(name, COLUMN_NAME_SIZE)]
DirectoryColumn_new_string(name) ==
    [type_ |-> COLUMN_STRING, name |-> string_to_fixed(name, COLUMN_NAME_SIZE)]

\* DirectoryColumn::get_name
DirectoryColumn_get_name(c) == fixed_to_string(c.name)

\* Directory::new(name, columns), columns an Option
Directory_new(name, columns) ==
    LET columns_vec == IF columns.tag = "Some" THEN columns.val ELSE <<>>
    IN  [header |-> [magic |-> DIRECTORY_MAGIC,
                     name |-> string_to_fixed(name, DIRECTORY_NAME_SIZE),
                     page_count |-> 0,
                     column_count |-> AsU8(Len(columns_vec))],
         columns |-> columns_vec,
         names |-> <<>>]

\* mutant: the capacity test is `>` where the source has `>=`
Directory_add_page_OffByOne(d, p) ==
    IF Len(d.names) > PAGES_PER_DIRECTORY
    THEN [out |-> Err(InvalidPageCount(AsU8(Len(d.names)))), dir |-> d]
    ELSE LET names == Append(d.names, p.header.name)
         IN  [out |-> Ok(<<>>),
              dir |-> [d EXCEPT !.names = names,
                                !.header.page_count = AsU8(Len(names))]]

\* mutant: the name is put in front of the list where the source pushes it
\* at the end
Directory_add_page_Prepend(d, p) ==
    IF Len(d.names) >= PAGES_PER_DIRECTORY
    THEN [out |-> Err(InvalidPageCount(AsU8(Len(d.names)))), dir |-> d]
    ELSE LET names == <<p.header.name>> \o d.names
         IN  [out |-> Ok(<<>>),
              dir |-> [d EXCEPT !.names = names,
                                !.header.page_count = AsU8(Len(names))]]

\* Directory::add_page(&mut self, page): the value returned and the
\* directory afterwards
Directory_add_page(d, p) ==
    IF Len(d.names) >= PAGES_PER_DIRECTORY
    THEN [out |-> Err(InvalidPageCount(AsU8(Len(d.names)))), dir |-> d]
    ELSE LET names == Append(d.names, p.header.name)
         IN  [out |-> Ok(<<>>),
              dir |-> [d EXCEPT !.names = names,
                                !.header.page_count = AsU8(Len(names))]]

\* the loop `for column in &self.columns` of Directory::save: byte k of what
\* it writes is byte (k - 1) % 9 of record (k - 1) \div 9, a record being the
\* type tag and then the name
write_columns(cols) ==
    LET size == 1 + COLUMN_NAME_SIZE
    IN  [k \in 1..(Len(cols) * size) |->
            LET c == cols[((k - 1) \div size) + 1]
                off == (k - 1) % size
            IN  IF off = 0 THEN c.type_ ELSE c.name[off]]

\* the loop `for name in &self.names` of Directory::save
write_names(names) ==
    [k \in 1..(Len(names) * PAGE_NAME_SIZE) |->
        names[((k - 1) \div PAGE_NAME_SIZE) + 1][((k - 1) % PAGE_NAME_SIZE) + 1]]

\* mutant: column_count is written before page_count
Directory_save_CountsSwapped(d) ==
    <<d.header.magic>> \o d.header.name
        \o <<d.header.column_count>> \o <<d.header.page_count>>
        \o write_columns(d.columns)
        \o write_names(d.names)

\* Directory::save: the bytes written to the created file
Directory_save(d) ==
    <<d.header.magic>> \o d.header.name
        \o <<d.header.page_count>> \o <<d.header.column_count>>
        \o write_columns(d.columns)
        \o write_names(d.names)

\* the loop `for _i in 0..column_count` of Directory::load, n rounds: round
\* k reads the type tag and the name of record k, and a read_exact that
\* meets the end of the file ends the load with an error, which happens in
\* some round exactly when fewer than n whole records are left
read_columns(rest, n) ==
    LET size == 1 + COLUMN_NAME_SIZE
    IN  IF ~CanRead(rest, n * size) THEN [ok |-> FALSE]
        ELSE [ok |-> TRUE,
              items |-> [k \in 1..n |->
                            [type_ |-> rest[(k - 1) * size + 1],
                             name |-> SubSeq(rest, (k - 1) * size + 2, k * size)]],
              rest |-> Drop(rest, n * size)]

\* the loop `for _i in 0..page_count` of Directory::load, n rounds
read_names(rest, n) ==
    IF ~CanRead(rest, n * PAGE_NAME_SIZE) THEN [ok |-> FALSE]
    ELSE [ok |-> TRUE,
          items |-> [k \in 1..n |->
                        SubSeq(rest, (k - 1) * PAGE_NAME_SIZE + 1, k * PAGE_NAME_SIZE)],
          rest |-> Drop(rest, n * PAGE_NAME_SIZE)]

\* Directory::load, on the bytes of an opened file
Directory_load_bytes(bytes) ==
    IF ~CanRead(bytes, 1) THEN Err(Io("UnexpectedEof"))
    ELSE LET magic == bytes[1]
             r1 == Drop(bytes, 1)
         IN
    IF ~CanRead(r1, DIRECTORY_NAME_SIZE) THEN Err(Io("UnexpectedEof"))
    ELSE LET name == Take(r1, DIRECTORY_NAME_SIZE)
             r2 == Drop(r1, DIRECTORY_NAME_SIZE)
         IN
    IF ~CanRead(r2, 1) THEN Err(Io("UnexpectedEof"))
    ELSE LET page_count == r2[1]
             r3 == Drop(r2, 1)
         IN
    IF ~CanRead(r3, 1) THEN Err(Io("UnexpectedEof"))
    ELSE LET column_count == r3[1]
             r4 == Drop(r3, 1)
         IN
    IF magic # DIRECTORY_MAGIC THEN Err(InvalidMagic(DIRECTORY_MAGIC, magic))
    ELSE LET cols == read_columns(r4, column_count)
         IN
    IF ~cols.ok THEN Err(Io("UnexpectedEof"))
    ELSE LET nms == read_names(cols.rest, page_count)
         IN
    IF ~nms.ok THEN Err(Io("UnexpectedEof"))
    ELSE Ok([header |-> [magic |-> magic,
                         name |-> name,
                         page_count |-> page_count,
                         column_count |-> column_count],
             columns |-> cols.items,
             names |-> nms.items])

\* Directory::load(path): File::open fails when there is no file
Directory_load(f) ==
    IF f.tag = "None" THEN Err(Io("NotFound")) ELSE Directory_load_bytes(f.val)

\* Directory::get_name
Directory_get_name(d) == fixed_to_string(d.header.name)

\* Directory::get_page_names
Directory_get_page_names(d) ==
    [i \in 1..Len(d.names) |-> trim_end_nul(from_utf8_lossy(d.names[i]))]

----------------------------------------------------------------------------
(* main.rs, the simple variant                                             *)

\* string_to_fixed_name(s)
string_to_fixed_name(s) ==
    LET len == Min(Len(s), Simple_NAME_SIZE)
    IN  [i \in 1..Simple_NAME_SIZE |-> IF i <= len THEN s[i] ELSE 0]

\* Directory::new(name)
Simple_Directory_new(name) ==
    [header |-> [magic_check |-> Simple_DIRECTORY_MAGIC,
                 name |-> name,
                 page_count |-> 0],
     names |-> <<>>]

\* Directory::add_page(&mut self, page_name)
Simple_Directory_add_page(d, page_name) ==
    LET names == Append(d.names, page_name)
    IN  [d EXCEPT !.names = names, !.header.page_count = AsU8(Len(names))]

\* Directory::save: the bytes written to the created file
Simple_Directory_save(d) ==
    <<d.header.magic_check>> \o d.header.name \o <<d.header.page_count>>
        \o write_names(d.names)

\* Directory::load, on the bytes of an opened file
Simple_Directory_load_bytes(bytes) ==
    IF ~CanRead(bytes, 1) THEN Err(Io("UnexpectedEof"))
    ELSE LET magic_check == bytes[1]
             r1 == Drop(bytes, 1)
         IN
    IF ~CanRead(r1, Simple_NAME_SIZE) THEN Err(Io("UnexpectedEof"))
    ELSE LET name == Take(r1, Simple_NAME_SIZE)
             r2 == Drop(r1, Simple_NAME_SIZE)
         IN
    IF ~CanRead(r2, 1) THEN Err(Io("UnexpectedEof"))
    ELSE LET page_count == r2[1]
             r3 == Drop(r2, 1)
         IN
    IF magic_check # Simple_DIRECTORY_MAGIC
    THEN Err(InvalidMagic(Simple_DIRECTORY_MAGIC, magic_check))
    ELSE LET nms == read_names(r3, page_count)
         IN
    IF ~nms.ok THEN Err(Io("UnexpectedEof"))
    ELSE Ok([header |-> [magic_check |-> magic_check,
                         name |-> name,
                         page_count |-> page_count],
             names |-> nms.items])

\* Directory::load(path)
Simple_Directory_load(f) ==
    IF f.tag = "None" THEN Err(Io("NotFound"))
    ELSE Simple_Directory_load_bytes(f.val)

----------------------------------------------------------------------------
(* Inputs.  A &str is written as its bytes.                                *)

Str_pg == <<112, 103>>                                   \* "pg"
Str_testpage == <<116, 101, 115, 116, 112, 97, 103, 101>>       \* "testpage"
Str_testpage1 == <<116, 101, 115, 116, 112, 97, 103, 101, 49>>  \* "testpage1"
Str_page1 == <<112, 97, 103, 101, 49>>                   \* "page1"
Str_page2 == <<112, 97, 103, 101, 50>>                   \* "page2"
Str_testdir == <<116, 101, 115, 116, 100, 105, 114>>     \* "testdir"
Str_products == <<112, 114, 111, 100, 117, 99, 116, 115>>       \* "products"
Str_inventory == <<105, 110, 118, 101, 110, 116, 111, 114, 121>> \* "inventory"
Str_wide == <<119, 105, 100, 101>>                       \* "wide"
Str_id == <<105, 100>>                                   \* "id"
Str_name == <<110, 97, 109, 101>>                        \* "name"
Str_price == <<112, 114, 105, 99, 101>>                  \* "price"
\* b"1|Widget|19.99"
Bytes_row1 == <<49, 124, 87, 105, 100, 103, 101, 116, 124, 49, 57, 46, 57, 57>>

\* a payload of `len` bytes, with the terminator value at index `at` (none
\* for at = 0) and letters that change with the index elsewhere
LongPayload(len, at) ==
    [i \in 1..len |-> IF i = at THEN PAGE_END ELSE 65 + (i % 7)]

\* payloads of the page specification: short ones with and without the
\* terminator value, and long ones around the size of the content buffer
ShortPayloads == {<<>>, <<1, 1>>, <<65, PAGE_END, 66>>}
LongPayloads ==
    {LongPayload(len, 0) :
        len \in (PAGE_CONTENT_SIZE - 1)..(PAGE_CONTENT_SIZE + MaxOver)}
        \cup {LongPayload(PAGE_CONTENT_SIZE, 100)}

\* Page::new arguments of the page specification: every payload under a
\* short name, and the shortest and a long payload under a name of exactly
\* PAGE_NAME_SIZE bytes and under a name of one byte more
PageInputs ==
    {[name |-> Str_pg, buffer |-> b] : b \in ShortPayloads \cup LongPayloads}
        \cup {[name |-> n, buffer |-> b] :
                n \in {Str_testpage, Str_testpage1},
                b \in {<<>>, LongPayload(PAGE_CONTENT_SIZE, 0)}}

\* Page::new arguments where a directory is exercised
DirPageNames == {Str_page1, Str_page2, Str_testpage1}
DirPagePayloads == {Bytes_row1}

\* vec![new_int("id"), new_string("name"), new_float("price")]
SchemaColumns ==
    <<DirectoryColumn_new_int(Str_id),
      DirectoryColumn_new_string(Str_name),
      DirectoryColumn_new_float(Str_price)>>
\* a schema of n columns whose types and names go round the three above
WideColumns(n) == [i \in 1..n |-> SchemaColumns[(i % 3) + 1]]

\* Directory::new arguments
DirInputs ==
    {[name |-> Str_products, columns |-> Some(SchemaColumns)],
     [name |-> Str_inventory, columns |-> NoValue],
     \* the most columns a u8 counts, and one more
     [name |-> Str_wide, columns |-> Some(WideColumns(255))],
     [name |-> Str_wide, columns |-> Some(WideColumns(256))]}

\* what another writer may leave at the path: a first byte, a length
ForeignFirstBytes == {0, DIRECTORY_MAGIC}
TruncatedLengths == {0, 1, 1 + PAGE_NAME_SIZE, 2 + DIRECTORY_NAME_SIZE}

----------------------------------------------------------------------------
(* Actions: one per call.  `res` is the call made and what it returned.    *)

\* let page = Page::new(name, buffer)?
PageNew(name, buffer) ==
    LET r == Page_new(name, buffer)
    IN  /\ res' = [op |-> "Page::new", name |-> name, buffer |-> buffer, out |-> r]
        /\ IF r.tag = "Ok"
           THEN page' = Some(r.val) /\ made' = [name |-> name, buffer |-> buffer]
           ELSE UNCHANGED <<page, made>>
        /\ UNCHANGED <<dir, calls, sdir, pc, file>>

\* page.save(path)
PageSave ==
    /\ page.tag = "Some"
    /\ file' = File(Page_save(page.val))
    /\ res' = [op |-> "Page::save", out |-> Ok(<<>>)]
    /\ UNCHANGED <<page, made, news, dir, calls, sdir, pc>>

\* Page::load(path)
PageLoad ==
    /\ res' = [op |-> "Page::load", out |-> Page_load(file)]
    /\ UNCHANGED <<page, made, news, dir, calls, sdir, pc, file>>

\* let mut dir = Directory::new(name, columns)
DirNew(in) ==
    /\ dir' = Some(Directory_new(in.name, in.columns))
    /\ calls' = 0
    /\ res' = [op |-> "Directory::new", name |-> in.name, out |-> Ok(<<>>)]
    /\ UNCHANGED <<page, made, news, sdir, pc, file>>

\* dir.add_page(&page), at most `limit` calls per directory
AddPage(limit) ==
    /\ dir.tag = "Some"
    /\ page.tag = "Some"
    /\ calls < limit
    /\ LET r == Directory_add_page(dir.val, page.val)
       IN  /\ dir' = Some(r.dir)
           /\ res' = [op |-> "Directory::add_page", out |-> r.out]
    /\ calls' = calls + 1
    /\ UNCHANGED <<page, made, news, sdir, pc, file>>

\* dir.save(path)
DirSave ==
    /\ dir.tag = "Some"
    /\ file' = File(Directory_save(dir.val))
    /\ res' = [op |-> "Directory::save", out |-> Ok(<<>>)]
    /\ UNCHANGED <<page, made, news, dir, calls, sdir, pc>>

\* Directory::load(path)
DirLoad ==
    /\ res' = [op |-> "Directory::load", out |-> Directory_load(file)]
    /\ UNCHANGED <<page, made, news, dir, calls, sdir, pc, file>>

\* another writer replaces the first byte of the file
SetFirstByte(b) ==
    /\ file.tag = "File"
    /\ Len(file.val) >= 1
    /\ file' = File(<<b>> \o Tail(file.val))
    /\ res' = [op |-> "none"]
    /\ UNCHANGED <<page, made, news, dir, calls, sdir, pc>>

\* another writer cuts the file to n bytes
Truncate(n) ==
    /\ file.tag = "File"
    /\ Len(file.val) > n
    /\ file' = File(SubSeq(file.val, 1, n))
    /\ res' = [op |-> "none"]
    /\ UNCHANGED <<page, made, news, dir, calls, sdir, pc>>

----------------------------------------------------------------------------
(* tests::test_directory_operations of main.rs, with any number of         *)
(* add_page calls where the test makes two.                                *)

\* let mut directory = Directory::new(string_to_fixed_name("testdir"))
SimpleNew ==
    /\ pc = "start"
    /\ sdir' = Some(Simple_Directory_new(string_to_fixed_name(Str_testdir)))
    /\ calls' = 0
    /\ pc' = "build"
    /\ res' = [op |-> "simple Directory::new"]
    /\ UNCHANGED <<page, made, news, dir, file>>

\* directory.add_page(string_to_fixed_name("page1")), then "page2", in turn
SimpleAddPage ==
    /\ pc = "build"
    /\ calls < MaxSimpleAdds
    /\ LET s == IF calls % 2 = 0 THEN Str_page1 ELSE Str_page2
       IN  sdir' = Some(Simple_Directory_add_page(sdir.val, string_to_fixed_name(s)))
    /\ calls' = calls + 1
    /\ res' = [op |-> "simple Directory::add_page"]
    /\ UNCHANGED <<page, made, news, dir, pc, file>>

\* directory.save(&dir_path)?
SimpleSave ==
    /\ pc = "build"
    /\ file' = File(Simple_Directory_save(sdir.val))
    /\ pc' = "saved"
    /\ res' = [op |-> "simple Directory::save", out |-> Ok(<<>>)]
    /\ UNCHANGED <<page, made, news, dir, calls, sdir>>

\* let loaded_dir = Directory::load(&dir_path)?
SimpleLoad ==
    /\ pc = "saved"
    /\ res' = [op |-> "simple Directory::load", out |-> Simple_Directory_load(file)]
    /\ pc' = "loaded"
    /\ UNCHANGED <<page, made, news, dir, calls, sdir, file>>

\* fs::remove_file(dir_path)?
SimpleRemove ==
    /\ pc = "loaded"
    /\ file' = NoValue
    /\ pc' = "done"
    /\ UNCHANGED <<page, made, news, dir, calls, sdir, res>>

----------------------------------------------------------------------------
(* Specifications.                                                         *)

Init ==
    /\ page = NoValue
    /\ made = NoValue
    /\ news = 0
    /\ dir = NoValue
    /\ calls = 0
    /\ sdir = NoValue
    /\ pc = "start"
    /\ file = NoValue
    /\ res = [op |-> "none"]

\* Directories, pages and their files
NewPageForDir ==
    \E name \in DirPageNames, buffer \in DirPagePayloads :
        PageNew(name, buffer) /\ UNCHANGED news
NewDir == \E in \in DirInputs : DirNew(in)
AddPageBounded == AddPage(MaxAdd)

Next ==
    \/ NewPageForDir
    \/ NewDir
    \/ AddPageBounded
    \/ PageSave
    \/ DirSave
    \/ PageLoad
    \/ DirLoad

Spec == Init /\ [][Next]_vars

\* Pages, their files and what another writer leaves of them
NewPage == \E in \in PageInputs : PageNew(in.name, in.buffer) /\ UNCHANGED news
ForeignFirstByte == \E b \in ForeignFirstBytes : SetFirstByte(b)
ForeignTruncate == \E n \in TruncatedLengths : Truncate(n)

NextPage ==
    \/ NewPage
    \/ PageSave
    \/ ForeignFirstByte
    \/ ForeignTruncate
    \/ PageLoad
    \/ DirLoad

SpecPage == Init /\ [][NextPage]_vars

\* A directory filled to its capacity and beyond
InitCap ==
    /\ page = Some(Page_new(Str_page1, Bytes_row1).val)
    /\ made = [name |-> Str_page1, buffer |-> Bytes_row1]
    /\ news = 0
    /\ dir = NoValue
    /\ calls = 0
    /\ sdir = NoValue
    /\ pc = "start"
    /\ file = NoValue
    /\ res = [op |-> "none"]

NewPageCounted ==
    /\ news < MaxPageNew
    /\ news' = news + 1
    /\ \E name \in DirPageNames, buffer \in DirPagePayloads : PageNew(name, buffer)
AddPageToCapacity == AddPage(MaxCalls)

NextCap ==
    \/ NewPageCounted
    \/ NewDir
    \/ AddPageToCapacity

SpecCap == InitCap /\ [][NextCap]_vars

\* The simple variant
NextSimple ==
    \/ SimpleNew
    \/ SimpleAddPage
    \/ SimpleSave
    \/ SimpleLoad
    \/ SimpleRemove

SpecSimple == Init /\ [][NextSimple]_vars

----------------------------------------------------------------------------
(* Properties.                                                             *)

IsInvalidMagic(out, e, f) ==
    /\ out.tag = "Err"
    /\ out.err.kind = "InvalidMagic"
    /\ out.err.expected = e
    /\ out.err.found = f

IsUnexpectedEof(out) ==
    /\ out.tag = "Err"
    /\ out.err.kind = "Io"
    /\ out.err.error = "UnexpectedEof"

\* the file holds exactly what Page::save writes for the page held
FileIsSavedPage == page.tag = "Some" /\ file = File(Page_save(page.val))
\* the file holds exactly what Directory::save writes for the directory held
FileIsSavedDir == dir.tag = "Some" /\ file = File(Directory_save(dir.val))

\* C1 (as claimed): for every name of at most 8 bytes and every payload of at
\* most 255 bytes, Page::new succeeds, and loading the saved page gives back
\* the name through get_name() and the payload through get_content().
C1_PageRoundTrip ==
    /\ (res.op = "Page::new"
            /\ Len(res.name) <= PAGE_NAME_SIZE
            /\ Len(res.buffer) <= PAGE_CONTENT_SIZE - 1)
        => res.out.tag = "Ok"
    /\ (res.op = "Page::load"
            /\ FileIsSavedPage
            /\ Len(made.name) <= PAGE_NAME_SIZE
            /\ Len(made.buffer) <= PAGE_CONTENT_SIZE - 1)
        => /\ res.out.tag = "Ok"
           /\ Page_get_name(res.out.val) = to_string(made.name)
           /\ Page_get_content(res.out.val) = made.buffer

\* C2 (as claimed): whenever the first byte of the file differs from the
\* loader's magic constant, Page::load and Directory::load fail with
\* InvalidMagic {expected: the constant, found: that byte}, however few bytes
\* follow the first one.
C2_MagicValidationAnyLength ==
    /\ (res.op = "Page::load" /\ file.tag = "File" /\ Len(file.val) >= 1
            /\ file.val[1] # PAGE_MAGIC)
        => IsInvalidMagic(res.out, PAGE_MAGIC, file.val[1])
    /\ (res.op = "Directory::load" /\ file.tag = "File" /\ Len(file.val) >= 1
            /\ file.val[1] # DIRECTORY_MAGIC)
        => IsInvalidMagic(res.out, DIRECTORY_MAGIC, file.val[1])

\* C2 (amended): whenever the file holds at least the fixed header the loader
\* reads before it looks at the magic byte (9 bytes for Page::load, 11 bytes
\* for Directory::load) and its first byte differs from the loader's magic
\* constant, the load fails with InvalidMagic {expected: the constant, found:
\* that byte}, whatever follows the header; a file shorter than that header
\* fails with an Io error (UnexpectedEof) whatever its first byte is.
C2_MagicValidationFullHeader ==
    /\ (res.op = "Page::load" /\ file.tag = "File")
        => IF Len(file.val) < 1 + PAGE_NAME_SIZE
           THEN IsUnexpectedEof(res.out)
           ELSE file.val[1] # PAGE_MAGIC
                    => IsInvalidMagic(res.out, PAGE_MAGIC, file.val[1])
    /\ (res.op = "Directory::load" /\ file.tag = "File")
        => IF Len(file.val) < 1 + DIRECTORY_NAME_SIZE + 2
           THEN IsUnexpectedEof(res.out)
           ELSE file.val[1] # DIRECTORY_MAGIC
                    => IsInvalidMagic(res.out, DIRECTORY_MAGIC, file.val[1])

\* Page::load has rejected a file of full page size for its first byte
C2_Witness ==
    /\ res.op = "Page::load"
    /\ file.tag = "File"
    /\ Len(file.val) = 1 + PAGE_NAME_SIZE + PAGE_CONTENT_SIZE
    /\ file.val[1] = DIRECTORY_MAGIC
    /\ IsInvalidMagic(res.out, PAGE_MAGIC, DIRECTORY_MAGIC)

\* C3: on a new Directory each of the first 32 add_page calls succeeds and
\* leaves page_count equal to the number of calls made; the 33rd call and
\* every later one fails with InvalidPageCount(32) and leaves 32 pages.
C3_Capacity ==
    res.op = "Directory::add_page"
        => IF calls <= PAGES_PER_DIRECTORY
           THEN /\ res.out.tag = "Ok"
                /\ dir.val.header.page_count = calls
                /\ Len(dir.val.names) = calls
           ELSE /\ res.out.tag = "Err"
                /\ res.out.err = InvalidPageCount(PAGES_PER_DIRECTORY)
                /\ dir.val.header.page_count = PAGES_PER_DIRECTORY
                /\ Len(dir.val.names) = PAGES_PER_DIRECTORY

\* the 33rd add_page call on a directory has failed
C3_Witness ==
    /\ res.op = "Directory::add_page"
    /\ calls = PAGES_PER_DIRECTORY + 1
    /\ res.out.tag = "Err"
    /\ Len(dir.val.names) = PAGES_PER_DIRECTORY

\* C4 (as claimed): for every payload of 256 bytes or more (under a name that
\* fits) Page::new succeeds, the terminator is at buffer offset 255, and
\* get_content() is exactly the first 255 bytes of the payload.
C4_Truncation ==
    (res.op = "Page::new"
        /\ Len(res.name) <= PAGE_NAME_SIZE
        /\ Len(res.buffer) >= PAGE_CONTENT_SIZE)
    => /\ res.out.tag = "Ok"
       /\ res.out.val.content[PAGE_CONTENT_SIZE] = PAGE_END
       /\ Page_get_content(res.out.val) = SubSeq(res.buffer, 1, PAGE_CONTENT_SIZE - 1)

\* C5: a Directory whose column_count is the number of its columns and whose
\* page_count is the number of its names is loaded back from what save wrote
\* with the same name bytes, counts, columns in order and page names in
\* order.
C5_DirectoryRoundTrip ==
    (res.op = "Directory::load"
        /\ FileIsSavedDir
        /\ dir.val.header.column_count = Len(dir.val.columns)
        /\ dir.val.header.page_count = Len(dir.val.names))
    => /\ res.out.tag = "Ok"
       /\ res.out.val.header.name = dir.val.header.name
       /\ res.out.val.header.page_count = dir.val.header.page_count
       /\ res.out.val.header.column_count = dir.val.header.column_count
       /\ Len(res.out.val.columns) = Len(dir.val.columns)
       /\ \A i \in 1..Len(dir.val.columns) :
            /\ res.out.val.columns[i].type_ = dir.val.columns[i].type_
            /\ res.out.val.columns[i].name = dir.val.columns[i].name
       /\ res.out.val.names = dir.val.names

\* a directory with the three-column schema and two different page names has
\* been saved and loaded back
C5_Witness ==
    /\ res.op = "Directory::load"
    /\ FileIsSavedDir
    /\ res.out.tag = "Ok"
    /\ [i \in 1..Len(res.out.val.columns) |->
            DirectoryColumn_get_name(res.out.val.columns[i])]
         = <<to_string(Str_id), to_string(Str_name), to_string(Str_price)>>
    /\ Directory_get_page_names(res.out.val)
         = <<to_string(Str_page1), to_string(Str_page2)>>

\* C6 (as claimed): Page::new and Directory::new both fail on a name longer
\* than 8 bytes, so no record is built from a truncated name.
C6_NameLengthEnforced ==
    /\ (res.op = "Page::new" /\ Len(res.name) > PAGE_NAME_SIZE)
        => res.out.tag = "Err" /\ res.out.err.kind = "InvalidInput"
    /\ (res.op = "Directory::new" /\ Len(res.name) > DIRECTORY_NAME_SIZE)
        => res.out.tag = "Err"

\* C7: the two magic constants differ, Directory::load of what Page::save
\* wrote fails, and Page::load of what Directory::save wrote fails.
C7_KindRejection ==
    /\ PAGE_MAGIC # DIRECTORY_MAGIC
    /\ (res.op = "Directory::load" /\ FileIsSavedPage) => res.out.tag = "Err"
    /\ (res.op = "Page::load" /\ FileIsSavedDir) => res.out.tag = "Err"

\* Directory::load has been given the file of a saved page
C7_Witness ==
    /\ res.op = "Directory::load"
    /\ FileIsSavedPage
    /\ IsInvalidMagic(res.out, DIRECTORY_MAGIC, PAGE_MAGIC)

\* C8 (as claimed): in the simple variant, after n add_page calls page_count
\* and names.len() both equal n, and the directory loaded back from the saved
\* file has page_count n and n names.
C8_SimpleCount ==
    /\ sdir.tag = "Some"
        => /\ sdir.val.header.page_count = calls
           /\ Len(sdir.val.names) = calls
    /\ pc = "loaded"
        => /\ res.out.tag = "Ok"
           /\ res.out.val.header.page_count = calls
           /\ Len(res.out.val.names) = calls

\* C9 (as claimed): every Directory built by Directory::new and add_page, and
\* every Directory that Directory::load returns, has page_count = len(names)
\* and column_count = len(columns).
C9_CountInvariant ==
    /\ dir.tag = "Some"
        => /\ dir.val.header.page_count = Len(dir.val.names)
           /\ dir.val.header.column_count = Len(dir.val.columns)
    /\ (res.op = "Directory::load" /\ res.out.tag = "Ok")
        => /\ res.out.val.header.page_count = Len(res.out.val.names)
           /\ res.out.val.header.column_count = Len(res.out.val.columns)

\* C10: a successful add_page appends the 8 name bytes of the page to names
\* and changes nothing else but page_count; a failing add_page changes
\* nothing; neither changes the page.
C10_AddPageFrame ==
    [][res'.op = "Directory::add_page"
        => /\ page' = page
           /\ IF res'.out.tag = "Ok"
              THEN /\ dir'.val.names = Append(dir.val.names, page.val.header.name)
                   /\ dir'.val.header.page_count = dir.val.header.page_count + 1
                   /\ dir'.val.columns = dir.val.columns
                   /\ dir'.val.header.magic = dir.val.header.magic
                   /\ dir'.val.header.name = dir.val.header.name
                   /\ dir'.val.header.column_count = dir.val.header.column_count
              ELSE dir' = dir]_vars

\* add_page has appended a name that differs from the first one
C10_Witness ==
    /\ res.op = "Directory::add_page"
    /\ res.out.tag = "Ok"
    /\ Len(dir.val.names) >= 2
    /\ dir.val.names[Len(dir.val.names)] = page.val.header.name
    /\ dir.val.names[1] # page.val.header.name

====
